---- MODULE Spec2Model ----
(***************************************************************************)
(* idea-mill (src/idea-mill.js, the CLI version at lines 146-489): a       *)
(* command line tool that loads a primer file, samples mechanisms, runs a  *)
(* three stage prompt chain against an inference service and ranks the     *)
(* ideas of the third stage's JSON output.                                 *)
(*                                                                         *)
(* A text is a sequence of lexemes (strings): the literal pieces of the    *)
(* program's templates, the words of the inputs, the tokens of a JSON      *)
(* document.  String concatenation of the source is \o on these sequences. *)
(***************************************************************************)
EXTENDS Integers, Sequences, FiniteSets, TLC

VARIABLES
    pc,           \* position of the process in the script
    argv,         \* process.argv.slice(2)
    envToken,     \* process.env.GITHUB_TOKEN (Null when unset)
    disk,         \* the file system: path -> file
    config,       \* the configuration object built by parseArgs
    stdout,       \* what console.log has written, one text per call
    stderr,       \* what console.error has written, one text per call
    exitCode,     \* the status the process ended with (read when pc = "exited")
    primerPool,   \* main: the parsed primer list
    sampled,      \* spinOnce: the value of sample(primerPool, config.samples)
    primer,       \* spinOnce: the sampled mechanisms, joined
    question,     \* spinOnce: the answer of stage 1
    ideas,        \* spinOnce: the answer of stage 2
    rankingJSON,  \* spinOnce: the answer of stage 3
    ideasArray,   \* spinOnce: the normalized list of stage 3 (<<>> until set)
    best,         \* spinOnce: the result list
    requests,     \* the requests the inference service has received, in order
    replies       \* what the inference service did with each of them, in order

vars == <<pc, argv, envToken, disk, config, stdout, stderr, exitCode, primerPool,
          sampled, primer, question, ideas, rankingJSON, ideasArray, best, requests, replies>>

(***************************************************************************)
(* Bounds of the model.                                                    *)
(***************************************************************************)
MaxArgs == 3    \* words on the command line
MaxPool == 3    \* entries of a primer file
MaxIdeas == 4   \* entries of a stage 3 list of valid ideas
MaxMixed == 3   \* entries of a stage 3 list that mixes valid and invalid ideas

(***************************************************************************)
(* JavaScript values.                                                      *)
(***************************************************************************)
\* null / undefined of a string-valued slot
Null == "<null>"

\* !s for a slot holding a string, null or undefined
Falsy(s) == s \in {Null, ""}

\* IEEE doubles: the finite integers, the two infinities and NaN
Fin(n) == [num |-> n]
PosInf == [inf |-> 1]
NegInf == [inf |-> -1]
NaN == [nan |-> TRUE]

IsFin(x) == DOMAIN x = {"num"}

\* a + b on numbers
NumAdd(a, b) ==
    IF a = NaN \/ b = NaN THEN NaN
    ELSE IF IsFin(a) /\ IsFin(b) THEN Fin(a.num + b.num)
    ELSE IF IsFin(a) THEN b
    ELSE IF IsFin(b) THEN a
    ELSE IF a = b THEN a
    ELSE NaN

\* a - b on numbers
NumSub(a, b) ==
    NumAdd(a, IF b = NaN THEN NaN
              ELSE IF IsFin(b) THEN Fin(0 - b.num)
              ELSE IF b = PosInf THEN NegInf ELSE PosInf)

\* the sign of a number: -1, 0, 1; NaN counts as +0, as Array.prototype.sort
\* reads a comparator's result
SortSign(x) ==
    IF x = NaN THEN 0
    ELSE IF x = PosInf THEN 1
    ELSE IF x = NegInf THEN -1
    ELSE IF x.num > 0 THEN 1 ELSE IF x.num < 0 THEN -1 ELSE 0

\* String(x) of a number
NumText(x) ==
    IF x = NaN THEN "NaN"
    ELSE IF x = PosInf THEN "Infinity"
    ELSE IF x = NegInf THEN "-Infinity"
    ELSE ToString(x.num)

(***************************************************************************)
(* Texts.                                                                  *)
(***************************************************************************)
Whitespace == {" ", "\n"}

RECURSIVE TrimStart(_)
TrimStart(t) ==
    IF t # <<>> /\ Head(t) \in Whitespace THEN TrimStart(Tail(t)) ELSE t

RECURSIVE TrimEnd(_)
TrimEnd(t) ==
    IF t # <<>> /\ t[Len(t)] \in Whitespace
    THEN TrimEnd(SubSeq(t, 1, Len(t) - 1)) ELSE t

\* String.prototype.trim
Trim(t) == TrimEnd(TrimStart(t))

\* t.includes(part)
Contains(t, part) ==
    \E i \in 1..(Len(t) + 1) :
        /\ i + Len(part) - 1 <= Len(t)
        /\ SubSeq(t, i, i + Len(part) - 1) = part

\* Array.prototype.join
RECURSIVE Join(_, _)
Join(list, sep) ==
    IF list = <<>> THEN <<>>
    ELSE IF Len(list) = 1 THEN <<list[1]>>
    ELSE <<list[1], sep>> \o Join(Tail(list), sep)

(***************************************************************************)
(* The default configuration.                                              *)
(***************************************************************************)
DEFAULT_ENDPOINT == "https://models.github.ai/inference"
DEFAULT_MODEL == "openai/gpt-4o"
DEFAULT_PRIMER_YAML == "./primer.yaml"
DEFAULT_N_SAMPLES == 6
DEFAULT_TEMPERATURE == "0.7"

\* the defaults with a problem statement built in
DefaultConfigWithProblem(token) ==
    [token |-> token, endpoint |-> DEFAULT_ENDPOINT, model |-> DEFAULT_MODEL,
     primerFile |-> DEFAULT_PRIMER_YAML, samples |-> DEFAULT_N_SAMPLES,
     problem |-> "reducing latency in distributed database queries",
     temperature |-> DEFAULT_TEMPERATURE, help |-> FALSE, verbose |-> FALSE]

DefaultConfig(token) ==
    [token |-> token, endpoint |-> DEFAULT_ENDPOINT, model |-> DEFAULT_MODEL,
     primerFile |-> DEFAULT_PRIMER_YAML, samples |-> DEFAULT_N_SAMPLES,
     problem |-> Null, temperature |-> DEFAULT_TEMPERATURE,
     help |-> FALSE, verbose |-> FALSE]

(***************************************************************************)
(* parseArgs.                                                              *)
(***************************************************************************)
\* the command line words of the model that start with "-"
DashWords == {"-h", "--help", "-v", "--verbose", "-m", "--model", "-p", "--problem",
              "-f", "--primer-file", "-s", "--samples", "-t", "--temperature",
              "--token", "--endpoint", "--bogus", "-x", "-1"}

\* arg.startsWith('-')
StartsWithDash(arg) == arg \in DashWords

\* parseInt on the words of the model: the integer a word starts with
IntPrefix == [w \in {"0", "2", "-1", "3x"} |->
                 CASE w = "0" -> 0 [] w = "2" -> 2 [] w = "-1" -> -1 [] w = "3x" -> 3]

\* isNaN(parseInt(w)), isNaN(parseFloat(w))
ParsesNaN(w) == w \notin DOMAIN IntPrefix

\* parseInt(w)
ParseInt(w) == IntPrefix[w]

\* parseFloat(w), as the decimal numeral of the result
ParseFloat(w) == ToString(IntPrefix[w])

\* the flags that take a value: flag -> [field it sets, name in its message]
ValueFlags ==
    [f \in {"-m", "--model", "-p", "--problem", "-f", "--primer-file",
            "--token", "--endpoint"} |->
        CASE f \in {"-m", "--model"} -> [field |-> "model", name |-> "--model"]
          [] f \in {"-p", "--problem"} -> [field |-> "problem", name |-> "--problem"]
          [] f \in {"-f", "--primer-file"} ->
                [field |-> "primerFile", name |-> "--primer-file"]
          [] f = "--token" -> [field |-> "token", name |-> "--token"]
          [] f = "--endpoint" -> [field |-> "endpoint", name |-> "--endpoint"]]

\* the message written, the exit forgotten
ArgErrorWithoutExit(msg, cfg) == [exit |-> FALSE, err |-> msg, config |-> cfg]

\* console.error(msg); process.exit(1) inside parseArgs
ArgError(msg, cfg) == [exit |-> TRUE, err |-> msg, config |-> cfg]

\* the loop of parseArgs from index i on
RECURSIVE parseArgsLoop(_, _, _)
parseArgsLoop(args, i, cfg) ==
    IF i > Len(args) THEN [exit |-> FALSE, err |-> "", config |-> cfg]
    ELSE
    LET arg == args[i]
        nextArg == IF i + 1 <= Len(args) THEN args[i + 1] ELSE Null
    IN
    IF arg \in {"-h", "--help"}
        THEN parseArgsLoop(args, i + 1, [cfg EXCEPT !.help = TRUE])
    ELSE IF arg \in {"-v", "--verbose"}
        THEN parseArgsLoop(args, i + 1, [cfg EXCEPT !.verbose = TRUE])
    ELSE IF arg \in DOMAIN ValueFlags
        THEN IF Falsy(nextArg)
             THEN ArgError("Error: " \o ValueFlags[arg].name \o " requires a value", cfg)
             ELSE parseArgsLoop(args, i + 2,
                                [cfg EXCEPT ![ValueFlags[arg].field] = nextArg])
    ELSE IF arg \in {"-s", "--samples"}
        THEN IF Falsy(nextArg) \/ ParsesNaN(nextArg)
             THEN ArgError("Error: --samples requires a numeric value", cfg)
             ELSE parseArgsLoop(args, i + 2, [cfg EXCEPT !.samples = ParseInt(nextArg)])
    ELSE IF arg \in {"-t", "--temperature"}
        THEN IF Falsy(nextArg) \/ ParsesNaN(nextArg)
             THEN ArgError("Error: --temperature requires a numeric value", cfg)
             ELSE parseArgsLoop(args, i + 2,
                                [cfg EXCEPT !.temperature = ParseFloat(nextArg)])
    ELSE IF ~StartsWithDash(arg) /\ Falsy(cfg.problem)
        THEN parseArgsLoop(args, i + 1, [cfg EXCEPT !.problem = arg])
    ELSE ArgError("Error: Unknown option " \o arg, cfg)

parseArgs(args, token) == parseArgsLoop(args, 1, DefaultConfig(token))

(***************************************************************************)
(* JSON values, as JSON.parse builds them.  An object is the sequence of   *)
(* its members in insertion order.                                         *)
(***************************************************************************)
Undefined == [t |-> "undefined"]
JNull == [t |-> "null"]
JBool(b) == [b |-> b, t |-> "boolean"]
JNum(n) == [n |-> n, t |-> "number"]
JStr(s) == [s |-> s, t |-> "string"]
JArr(a) == [a |-> a, t |-> "array"]
JObj(o) == [o |-> o, t |-> "object"]

\* Array.isArray(v)
IsArray(v) == v.t = "array"

\* the value of a truthiness test on v
Truthy(v) ==
    CASE v.t \in {"undefined", "null"} -> FALSE
      [] v.t = "boolean" -> v.b
      [] v.t = "number" -> v.n \notin {NaN, Fin(0)}
      [] v.t = "string" -> v.s # ""
      [] OTHER -> TRUE

\* obj[key] on the members of an object
RECURSIVE Member(_, _)
Member(o, key) ==
    IF o = <<>> THEN Undefined
    ELSE IF o[Len(o)].k = key THEN o[Len(o)].v
    ELSE Member(SubSeq(o, 1, Len(o) - 1), key)

\* v.key for a v that is neither null nor undefined (those throw a TypeError);
\* the keys read by the program are own properties of no primitive or array
Prop(v, key) == IF v.t = "object" THEN Member(v.o, key) ELSE Undefined

\* `${v}` as one lexeme
RECURSIVE ToText(_)
ToText(v) ==
    CASE v.t = "undefined" -> "undefined"
      [] v.t = "null" -> "null"
      [] v.t = "boolean" -> IF v.b THEN "true" ELSE "false"
      [] v.t = "number" -> NumText(v.n)
      [] v.t = "string" -> v.s
      [] v.t = "object" -> "[object Object]"
      [] v.t = "array" ->
            IF v.a = <<>> THEN ""
            ELSE LET first == IF v.a[1].t \in {"undefined", "null"} THEN ""
                              ELSE ToText(v.a[1])
                 IN IF Len(v.a) = 1 THEN first
                    ELSE first \o "," \o ToText(JArr(Tail(v.a)))

(***************************************************************************)
(* JSON texts.  The lexemes of a JSON text are its punctuation, the three  *)
(* literals, number lexemes and quoted strings.                            *)
(***************************************************************************)
\* the strings that occur in the documents of the model
StringWords == {"idea", "relevance", "plausibility", "reasoning", "ideas", "results",
                "result", "a", "b", "c", "d", "e", "f", "g", "h", "r", "2", ""}

Quote(s) == "\"" \o s \o "\""

\* string lexeme -> the string it denotes
StringOf == [q \in {Quote(s) : s \in StringWords} |->
                CHOOSE s \in StringWords : Quote(s) = q]

\* number lexeme -> the double it denotes; 1e999 overflows to Infinity
NumberOf == [w \in {"0", "1", "2", "3", "1e999", "-1e999"} |->
                CASE w = "0" -> Fin(0) [] w = "1" -> Fin(1) [] w = "2" -> Fin(2)
                  [] w = "3" -> Fin(3) [] w = "1e999" -> PosInf
                  [] w = "-1e999" -> NegInf]

ParseOk(v, next) == [ok |-> TRUE, v |-> v, next |-> next]
ParseFail(i) == [ok |-> FALSE, v |-> JNull, next |-> i]

\* the JSON grammar, by recursive descent over the lexemes t from index i
RECURSIVE ParseValue(_, _)
RECURSIVE ParseElements(_, _, _)
RECURSIVE ParseMembers(_, _, _)
ParseValue(t, i) ==
    IF i > Len(t) THEN ParseFail(i)
    ELSE IF t[i] = "null" THEN ParseOk(JNull, i + 1)
    ELSE IF t[i] = "true" THEN ParseOk(JBool(TRUE), i + 1)
    ELSE IF t[i] = "false" THEN ParseOk(JBool(FALSE), i + 1)
    ELSE IF t[i] \in DOMAIN NumberOf THEN ParseOk(JNum(NumberOf[t[i]]), i + 1)
    ELSE IF t[i] \in DOMAIN StringOf THEN ParseOk(JStr(StringOf[t[i]]), i + 1)
    ELSE IF t[i] = "["
        THEN IF i + 1 <= Len(t) /\ t[i + 1] = "]" THEN ParseOk(JArr(<<>>), i + 2)
             ELSE ParseElements(t, i + 1, <<>>)
    ELSE IF t[i] = "{"
        THEN IF i + 1 <= Len(t) /\ t[i + 1] = "}" THEN ParseOk(JObj(<<>>), i + 2)
             ELSE ParseMembers(t, i + 1, <<>>)
    ELSE ParseFail(i)

ParseElements(t, i, acc) ==
    LET r == ParseValue(t, i) IN
    IF ~r.ok \/ r.next > Len(t) THEN ParseFail(r.next)
    ELSE IF t[r.next] = "," THEN ParseElements(t, r.next + 1, Append(acc, r.v))
    ELSE IF t[r.next] = "]" THEN ParseOk(JArr(Append(acc, r.v)), r.next + 1)
    ELSE ParseFail(r.next)

ParseMembers(t, i, acc) ==
    IF i + 1 > Len(t) \/ t[i] \notin DOMAIN StringOf \/ t[i + 1] # ":"
    THEN ParseFail(i)
    ELSE
    LET r == ParseValue(t, i + 2)
        m == [k |-> StringOf[t[i]], v |-> r.v]
    IN
    IF ~r.ok \/ r.next > Len(t) THEN ParseFail(r.next)
    ELSE IF t[r.next] = "," THEN ParseMembers(t, r.next + 1, Append(acc, m))
    ELSE IF t[r.next] = "}" THEN ParseOk(JObj(Append(acc, m)), r.next + 1)
    ELSE ParseFail(r.next)

\* JSON.parse(text): [ok, v]; ok = FALSE when it throws a SyntaxError.
\* White space between lexemes is skipped.
JSONParse(text) ==
    LET t == SelectSeq(text, LAMBDA w : w \notin Whitespace)
        r == ParseValue(t, 1)
    IN [ok |-> r.ok /\ r.next = Len(t) + 1, v |-> r.v]

(***************************************************************************)
(* Array.prototype.sort and slice.                                         *)
(***************************************************************************)
\* sgn[i, j] is the sign of comparefn(list[i], list[j])
\* a stable sort of the indices 1..n by insertion
RECURSIVE InsertIdx(_, _, _)
InsertIdx(s, x, sgn) ==
    IF s = <<>> THEN <<x>>
    ELSE IF sgn[Head(s), x] > 0 THEN <<x>> \o s
    ELSE <<Head(s)>> \o InsertIdx(Tail(s), x, sgn)

RECURSIVE SortIdx(_, _)
SortIdx(n, sgn) == IF n = 0 THEN <<>> ELSE InsertIdx(SortIdx(n - 1, sgn), n, sgn)

\* ECMAScript's "consistent comparator" over the elements 1..n
ConsistentComparator(n, sgn) ==
    \A a, b, c \in 1..n :
        /\ sgn[a, a] = 0
        /\ (sgn[a, b] < 0) <=> (sgn[b, a] > 0)
        /\ (sgn[a, b] = 0 /\ sgn[b, c] = 0) => sgn[a, c] = 0
        /\ (sgn[a, b] < 0 /\ sgn[b, c] < 0) => sgn[a, c] < 0
        /\ (sgn[a, b] > 0 /\ sgn[b, c] > 0) => sgn[a, c] > 0

\* the orders sort may leave n elements in: the stable order under a
\* consistent comparator, an implementation-defined one otherwise
SortOrders(n, sgn) ==
    IF ConsistentComparator(n, sgn) THEN {SortIdx(n, sgn)}
    ELSE {[i \in 1..n |-> f[i]] : f \in Permutations(1..n)}

\* list.slice(0, k)
Slice0(list, k) ==
    LET n == Len(list)
        end == IF k < 0 THEN (IF n + k < 0 THEN 0 ELSE n + k)
               ELSE (IF k > n THEN n ELSE k)
    IN SubSeq(list, 1, end)

(***************************************************************************)
(* sample: pick k random elements of an array.                             *)
(***************************************************************************)
\* sample drawing each element anew, with replacement
sampleWithReplacement(arr, k, r) ==
    LET n == IF k < 0 \/ k > Len(arr) THEN Len(arr) ELSE k
    IN [i \in 1..n |-> arr[r[i]]]

\* r[i] is the rank of the i-th call of Math.random() among the draws (equal
\* ranks: equal draws)
sample(arr, k, r) ==
    LET n == Len(arr)
        sgn == [i \in 1..n, j \in 1..n |->
                   IF r[i] > r[j] THEN 1 ELSE IF r[i] < r[j] THEN -1 ELSE 0]
        order == SortIdx(n, sgn)
        picked == Slice0(order, k)
    IN [i \in 1..Len(picked) |-> arr[picked[i]]]

(***************************************************************************)
(* The ranker: the try block of spinOnce.                                  *)
(***************************************************************************)
\* the normalization without the branch for a results field
NormalizeWithoutResults(parsed) ==
    IF IsArray(parsed) THEN [threw |-> FALSE, list |-> parsed.a]
    ELSE IF parsed.t = "null" THEN [threw |-> TRUE, list |-> <<>>]
    ELSE IF Truthy(Prop(parsed, "ideas")) /\ IsArray(Prop(parsed, "ideas"))
        THEN [threw |-> FALSE, list |-> Prop(parsed, "ideas").a]
    ELSE IF Truthy(Prop(parsed, "result")) /\ IsArray(Prop(parsed, "result"))
        THEN [threw |-> FALSE, list |-> Prop(parsed, "result").a]
    ELSE [threw |-> FALSE, list |-> <<parsed>>]

\* "Handle different response formats": [threw, list]; reading a property of
\* null throws a TypeError
Normalize(parsed) ==
    IF IsArray(parsed) THEN [threw |-> FALSE, list |-> parsed.a]
    ELSE IF parsed.t = "null" THEN [threw |-> TRUE, list |-> <<>>]
    ELSE IF Truthy(Prop(parsed, "ideas")) /\ IsArray(Prop(parsed, "ideas"))
        THEN [threw |-> FALSE, list |-> Prop(parsed, "ideas").a]
    ELSE IF Truthy(Prop(parsed, "results")) /\ IsArray(Prop(parsed, "results"))
        THEN [threw |-> FALSE, list |-> Prop(parsed, "results").a]
    ELSE IF Truthy(Prop(parsed, "result")) /\ IsArray(Prop(parsed, "result"))
        THEN [threw |-> FALSE, list |-> Prop(parsed, "result").a]
    ELSE [threw |-> FALSE, list |-> <<parsed>>]

\* the filter without its test of item.idea
IsValidIdeaAnyIdea(item) ==
    /\ Truthy(item)
    /\ Prop(item, "relevance").t = "number"
    /\ Prop(item, "plausibility").t = "number"
    /\ Prop(item, "relevance").n # NaN
    /\ Prop(item, "plausibility").n # NaN

\* the predicate of the filter
IsValidIdea(item) ==
    /\ Truthy(item)
    /\ Prop(item, "idea").t = "string"
    /\ Prop(item, "relevance").t = "number"
    /\ Prop(item, "plausibility").t = "number"
    /\ Prop(item, "relevance").n # NaN
    /\ Prop(item, "plausibility").n # NaN

\* item.relevance + item.plausibility, of an item with two numbers
Score(item) == NumAdd(Prop(item, "relevance").n, Prop(item, "plausibility").n)

\* CompareIdeas with the operands the other way round: an ascending sort
CompareIdeasAscending(a, b) == NumSub(Score(a), Score(b))

\* the comparator given to sort
CompareIdeas(a, b) == NumSub(Score(b), Score(a))

\* the display string of a ranked item
FormatIdea(item) ==
    <<ToText(Prop(item, "idea")), " [Score: ", NumText(Score(item)), "/20]">>
    \o (IF Truthy(Prop(item, "reasoning"))
        THEN <<" (", ToText(Prop(item, "reasoning")), ")">> ELSE <<>>)

\* the diagnostic of the catch block without the raw answer
ParseFailureWithoutRaw(message, raw) == <<"Failed to parse ranking JSON: ", message>>

NoValidIdeas(raw) == <<"No valid ideas found in response. Raw output: ">> \o raw

ParseFailure(message, raw) ==
    <<"Failed to parse ranking JSON: ", message, ". Raw output: ">> \o raw

\* the sort and map without the slice between them: every valid idea is shown
RankedListsUncut(validIdeas) ==
    LET n == Len(validIdeas)
        sgn == [i \in 1..n, j \in 1..n |->
                   SortSign(CompareIdeas(validIdeas[i], validIdeas[j]))]
    IN { [i \in 1..n |-> FormatIdea(validIdeas[order[i]])]
         : order \in SortOrders(n, sgn) }

\* what the sort, slice and map leave of the valid ideas, for each order the
\* sort may produce
RankedLists(validIdeas) ==
    LET n == Len(validIdeas)
        sgn == [i \in 1..n, j \in 1..n |->
                   SortSign(CompareIdeas(validIdeas[i], validIdeas[j]))]
    IN { LET top == Slice0(order, 3)
         IN [i \in 1..Len(top) |-> FormatIdea(validIdeas[top[i]])]
         : order \in SortOrders(n, sgn) }

\* the outcomes of the try block on a stage 3 answer: [ideasArray, best]
RankOutcomes(raw) ==
    LET p == JSONParse(raw) IN
    IF ~p.ok
    THEN {[ideasArray |-> <<>>, best |-> <<ParseFailure("Unexpected token", raw)>>]}
    ELSE
    LET norm == Normalize(p.v) IN
    IF norm.threw
    THEN {[ideasArray |-> <<>>,
           best |-> <<ParseFailure("Cannot read properties of null", raw)>>]}
    ELSE
    LET validIdeas == SelectSeq(norm.list, IsValidIdea) IN
    IF validIdeas = <<>>
    THEN {[ideasArray |-> norm.list, best |-> <<NoValidIdeas(raw)>>]}
    ELSE {[ideasArray |-> norm.list, best |-> ranked] :
             ranked \in RankedLists(validIdeas)}

(***************************************************************************)
(* The inference service.  A reply is what the service does with one       *)
(* request: the request fails, the answer has no content, or the answer    *)
(* has a content.  A stage 3 reply also names the JSON document the model  *)
(* set out to write.                                                       *)
(***************************************************************************)
\* the text of a JSON document, as the model writes it
RECURSIVE Encode(_)
RECURSIVE EncodeElements(_)
RECURSIVE EncodeMembers(_)
Encode(v) ==
    CASE v.t = "null" -> <<"null">>
      [] v.t = "boolean" -> IF v.b THEN <<"true">> ELSE <<"false">>
      [] v.t = "number" -> <<CHOOSE w \in DOMAIN NumberOf : NumberOf[w] = v.n>>
      [] v.t = "string" -> <<Quote(v.s)>>
      [] v.t = "array" -> <<"[">> \o EncodeElements(v.a) \o <<"]">>
      [] v.t = "object" -> <<"{">> \o EncodeMembers(v.o) \o <<"}">>

EncodeElements(a) ==
    IF a = <<>> THEN <<>>
    ELSE IF Len(a) = 1 THEN Encode(a[1])
    ELSE Encode(a[1]) \o <<",">> \o EncodeElements(Tail(a))

EncodeMembers(o) ==
    IF o = <<>> THEN <<>>
    ELSE IF Len(o) = 1 THEN <<Quote(o[1].k), ":">> \o Encode(o[1].v)
    ELSE <<Quote(o[1].k), ":">> \o Encode(o[1].v) \o <<",">> \o EncodeMembers(Tail(o))

\* the sequences over S of length at most n
Lists(S, n) == UNION {[1..m -> S] : m \in 0..n}

M(k, v) == [k |-> k, v |-> v]

Idea(text, rel, pl) ==
    JObj(<<M("idea", JStr(text)), M("relevance", JNum(rel)), M("plausibility", JNum(pl))>>)

\* well-formed ideas: scores 2, 3, 3 and 4, one with a reasoning
IdeaA == Idea("a", Fin(1), Fin(1))
IdeaB == JObj(<<M("idea", JStr("b")), M("relevance", JNum(Fin(2))),
                M("plausibility", JNum(Fin(1))), M("reasoning", JStr("r"))>>)
IdeaC == Idea("c", Fin(1), Fin(2))
IdeaD == Idea("d", Fin(2), Fin(2))
\* relevance and plausibility overflow to Infinity and -Infinity: the sum is NaN
IdeaG == Idea("g", PosInf, NegInf)
\* a well-formed idea that carries a list named ideas
IdeaH == JObj(<<M("idea", JStr("h")), M("relevance", JNum(Fin(2))),
                M("plausibility", JNum(Fin(1))), M("ideas", JArr(<<>>))>>)
\* malformed ideas: a relevance that is a string, no plausibility, an idea
\* that is a number, no entry at all
BadRelevance == JObj(<<M("idea", JStr("e")), M("relevance", JStr("2")),
                       M("plausibility", JNum(Fin(1)))>>)
NoPlausibility == JObj(<<M("idea", JStr("f")), M("relevance", JNum(Fin(3)))>>)
BadIdea == JObj(<<M("idea", JNum(Fin(1))), M("relevance", JNum(Fin(2))),
                  M("plausibility", JNum(Fin(2)))>>)

ValidEntries == {IdeaA, IdeaB, IdeaC, IdeaD}
MixedEntries == {IdeaD, IdeaH, BadRelevance, NoPlausibility, BadIdea, JNull}

\* the lists of ideas the model may set out to write
IdeaLists ==
    Lists(ValidEntries, MaxIdeas) \cup Lists(MixedEntries, MaxMixed)
    \cup Lists({IdeaA, IdeaD, IdeaG}, MaxMixed)

\* the shapes the model may give a list L
ShapesOf(L) ==
    {JArr(L), JObj(<<M("ideas", JArr(L))>>), JObj(<<M("results", JArr(L))>>),
     JObj(<<M("result", JArr(L))>>)}
    \cup (IF Len(L) = 1 THEN {L[1]} ELSE {})

Documents ==
    UNION {ShapesOf(L) : L \in IdeaLists}
    \cup {JNull, JBool(TRUE), JNum(Fin(3)), JStr("a"), JObj(<<>>)}

\* the answers that are the whole text of a document
WholeAnswers == {[kind |-> "ok", content |-> Encode(d), doc |-> d] : d \in Documents}

\* the answers that are a damaged text: cut short, led in by prose, or with a
\* trailing comma; of the documents of at most one idea
DamagedAnswers ==
    UNION {
        LET text == Encode(d) IN
        {[kind |-> "ok", content |-> SubSeq(text, 1, n), doc |-> d] :
            n \in 0..(Len(text) - 1)}
        \cup {[kind |-> "ok", content |-> <<"Here", " ", "you", " ", "go:">> \o text,
               doc |-> d],
              [kind |-> "ok", content |-> text \o <<",">>, doc |-> d]}
        : d \in UNION {ShapesOf(L) : L \in Lists({IdeaB, NoPlausibility}, 1)}
               \cup {JNull, JNum(Fin(3))} }

\* the answers with white space around and inside the text
PaddedAnswers ==
    {[kind |-> "ok", content |-> <<"\n", "[", " ">> \o Encode(e) \o <<"]", " ">>,
      doc |-> JArr(<<e>>)] : e \in {IdeaB, NoPlausibility}}

FailedReplies == {[kind |-> "error"], [kind |-> "nocontent"]}

\* every stage 3 answer of the model
RankingReplies == WholeAnswers \cup DamagedAnswers \cup PaddedAnswers

\* a few of them
FewRankingReplies ==
    {[kind |-> "ok", content |-> Encode(d), doc |-> d] :
        d \in {JArr(<<IdeaA, IdeaD>>), JObj(<<M("ideas", JArr(<<IdeaB>>))>>)}}
    \cup {[kind |-> "ok", content |-> <<"[", "{">>, doc |-> JArr(<<IdeaA>>)]}

\* free text answers of stage 1 and 2
TextReplies(word) ==
    {[kind |-> "ok", content |-> c] : c \in {<<word>>, <<" ", word, " ", word, "\n">>}}

\* whether the text a reply carries is the text of its document
Intact(reply) ==
    SelectSeq(reply.content, LAMBDA w : w \notin Whitespace) = Encode(reply.doc)

(***************************************************************************)
(* The file system and the primer file.                                    *)
(***************************************************************************)
\* a file: missing, not readable (a directory), not YAML, or a YAML document
\* with the value YAML.parse gives it
MissingFile == [kind |-> "missing"]
Directory == [kind |-> "unreadable"]
InvalidYaml == [kind |-> "invalid"]
YamlFile(value) == [kind |-> "yaml", value |-> value]

Mechanisms == {"m1", "m2"}

\* the primer lists of the model (an entry may repeat)
PrimerLists(n) == {[i \in 1..Len(l) |-> JStr(l[i])] : l \in Lists(Mechanisms, n)}

\* the paths of the model
Paths == {DEFAULT_PRIMER_YAML, "x.yaml"}

FileAt(path) == IF path \in DOMAIN disk THEN disk[path] ELSE MissingFile

\* fs.readFile(path) then YAML.parse(text): [threw, error, value]
ReadYaml(path) ==
    LET file == FileAt(path) IN
    CASE file.kind = "missing" ->
            [threw |-> TRUE, value |-> JNull,
             error |-> [name |-> "Error", code |-> "ENOENT",
                        message |-> "ENOENT: no such file or directory"]]
      [] file.kind = "unreadable" ->
            [threw |-> TRUE, value |-> JNull,
             error |-> [name |-> "Error", code |-> "EISDIR",
                        message |-> "EISDIR: illegal operation on a directory"]]
      [] file.kind = "invalid" ->
            [threw |-> TRUE, value |-> JNull,
             error |-> [name |-> "YAMLParseError", code |-> "BAD_INDENT",
                        message |-> "YAML syntax error"]]
      [] file.kind = "yaml" ->
            [threw |-> FALSE, value |-> file.value,
             error |-> [name |-> "", code |-> Null, message |-> ""]]

\* the catch block of main with one message for every error
CatchMessageGeneric(error) == <<"Error reading primer file: ", error.message>>

\* the message of the catch block of main
CatchMessage(error) ==
    IF error.code = "ENOENT"
    THEN <<"Error: Primer file '", config.primerFile, "' not found">>
    ELSE IF error.name = "YAMLParseError"
    THEN <<"Error: Invalid YAML in primer file '", config.primerFile, "'">>
    ELSE <<"Error reading primer file: ", error.message>>

\* the message of main().catch
TopLevelMessage(error) == <<"Idea-mill encountered an error:", error.message>>

\* the positions of the script inside the try block of main
TryBlock == {"main", "spinOnce", "stage1", "stage2", "stage3", "rank", "publish"}

\* an error thrown at the current position: the catch block of main prints and
\* exits with status 1; outside the try block the rejection reaches
\* main().catch, which prints, and the process ends with status 0
Throw(error) ==
    /\ stderr' = Append(stderr, IF pc \in TryBlock THEN CatchMessage(error)
                                ELSE TopLevelMessage(error))
    /\ exitCode' = IF pc \in TryBlock THEN 1 ELSE 0
    /\ pc' = "exited"

(***************************************************************************)
(* ask: one request to the inference service.                              *)
(***************************************************************************)
\* requestOptions
askRequest(messages, temperature, responseFormat) ==
    [model |-> config.model, temperature |-> temperature, top_p |-> "1.0",
     messages |-> messages,
     response_format |-> IF responseFormat = "json_object" THEN "json_object" ELSE Null]

\* what the await of ask gives for a reply: [threw, error, value]
askResult(reply) ==
    CASE reply.kind = "error" ->
            [threw |-> TRUE, value |-> <<>>,
             error |-> [name |-> "APIConnectionError", code |-> Null,
                        message |-> "Connection error."]]
      [] reply.kind = "nocontent" ->
            [threw |-> TRUE, value |-> <<>>,
             error |-> [name |-> "TypeError", code |-> Null,
                        message |-> "Cannot read properties of null (reading 'trim')"]]
      [] reply.kind = "ok" ->
            [threw |-> FALSE, value |-> Trim(reply.content),
             error |-> [name |-> "", code |-> Null, message |-> ""]]

Message(role, content) == [role |-> role, content |-> content]

\* the prompts of the three stages (the system prompts abridged to their
\* first and last sentence; the bullet of the source written as "*")
ConnectionMessages(primerText) ==
    <<Message("system", <<"Given these mechanism snippets, identify ONE interesting connection, tension, or pattern across them. [...] Do NOT mention the target problem.">>),
      Message("user", <<"Available mechanisms:\n* ">> \o primerText)>>

\* the prompt of stage 2 without the observation of stage 1
IdeationMessagesWithoutObservation(targetProblem, questionText, primerText) ==
    <<Message("system", <<"Given this observation about different mechanisms and a specific target problem, generate FIVE ways the mechanistic insights could address the problem. Be specific about implementation details.">>),
      Message("user", <<"Target problem: ", targetProblem,
                        "\n\nAvailable mechanisms:\n* ">> \o primerText)>>

IdeationMessages(targetProblem, questionText, primerText) ==
    <<Message("system", <<"Given this observation about different mechanisms and a specific target problem, generate FIVE ways the mechanistic insights could address the problem. Be specific about implementation details.">>),
      Message("user", <<"Target problem: ", targetProblem, "\n\nMechanistic observation: ">>
                      \o questionText \o <<"\n\nAvailable mechanisms:\n* ">> \o primerText)>>

RankingMessages(targetProblem, ideasText) ==
    <<Message("system", <<"Extract each complete idea from the previous response and rate it. [...] - Relevance: How directly does this answer ", targetProblem, "?\n- Plausibility: How technically feasible given current knowledge? [...] Return valid JSON array format: [...]">>),
      Message("user", ideasText)>>

(***************************************************************************)
(* The script, step by step.                                               *)
(***************************************************************************)
\* process.exit(code)
Exit(code) == pc' = "exited" /\ exitCode' = code

spinVars == <<sampled, primer, question, ideas, rankingJSON, ideasArray, best>>
inputVars == <<argv, envToken, disk>>

\* const config = parseArgs()
ParseArgs ==
    /\ pc = "parseArgs"
    /\ LET r == parseArgs(argv, envToken) IN
       IF r.exit
       THEN /\ stderr' = Append(stderr, <<r.err>>)
            /\ Exit(1)
            /\ UNCHANGED config
       ELSE /\ config' = r.config
            /\ pc' = "checks"
            /\ UNCHANGED <<stderr, exitCode>>
    /\ UNCHANGED <<inputVars, stdout, primerPool, spinVars, requests, replies>>

HelpText == <<"idea-mill - Generate innovative solutions by combining different mechanisms [...]">>

\* the checks of the configuration, then the client is built and main called
ConfigChecks ==
    /\ pc = "checks"
    /\ IF config.help
       THEN /\ stdout' = Append(stdout, HelpText)
            /\ Exit(0)
            /\ UNCHANGED stderr
       ELSE IF Falsy(config.problem)
       THEN /\ stderr' = Append(stderr, <<"Error: Problem statement is required. Use --help for usage information.">>)
            /\ Exit(1)
            /\ UNCHANGED stdout
       ELSE IF Falsy(config.token)
       THEN /\ stderr' = Append(stderr, <<"Error: API token is required. Set GITHUB_TOKEN environment variable or use --token.">>)
            /\ Exit(1)
            /\ UNCHANGED stdout
       ELSE /\ pc' = "main"
            /\ UNCHANGED <<stdout, stderr, exitCode>>
    /\ UNCHANGED <<inputVars, config, primerPool, spinVars, requests, replies>>

\* main: read and parse the primer file, check that it is a list
LoadPrimer ==
    /\ pc = "main"
    /\ LET r == ReadYaml(config.primerFile) IN
       IF r.threw
       THEN /\ Throw(r.error)
            /\ UNCHANGED <<stdout, primerPool>>
       ELSE IF ~IsArray(r.value)
       THEN /\ stderr' = Append(stderr, <<"Error: Primer file should contain a YAML array/sequence">>)
            /\ Exit(1)
            /\ UNCHANGED <<stdout, primerPool>>
       ELSE /\ primerPool' = r.value.a
            /\ stdout' = Append(stdout, <<"Loaded ", ToString(Len(r.value.a)),
                                          " primer mechanisms\n">>)
            /\ pc' = "spinOnce"
            /\ UNCHANGED <<stderr, exitCode>>
    /\ UNCHANGED <<inputVars, config, spinVars, requests, replies>>

\* list.map(String), as join does it
JoinText(list, sep) ==
    Join([i \in 1..Len(list) |->
             IF list[i].t \in {"null", "undefined"} THEN "" ELSE ToText(list[i])], sep)

\* spinOnce: sample the mechanisms and send the request of stage 1
StartSpin ==
    /\ pc = "spinOnce"
    /\ \E r \in [1..Len(primerPool) -> 1..Len(primerPool)] :
        LET s == sample(primerPool, config.samples, r)
            p == JoinText(s, "\n* ")
        IN /\ sampled' = s
           /\ primer' = p
           /\ stdout' = Append(stdout, <<"Analyzing mechanism connections...">>)
           /\ requests' = Append(requests,
                  askRequest(ConnectionMessages(p), config.temperature, Null))
    /\ pc' = "stage1"
    /\ UNCHANGED <<inputVars, config, stderr, exitCode, primerPool, question, ideas,
                   rankingJSON, ideasArray, best, replies>>

\* the answer of stage 1 arrives; the request of stage 2 is sent
Stage1Reply(R) ==
    /\ pc = "stage1"
    /\ \E reply \in R :
        /\ replies' = Append(replies, reply)
        /\ LET a == askResult(reply) IN
           IF a.threw
           THEN /\ Throw(a.error)
                /\ UNCHANGED <<stdout, question, requests>>
           ELSE /\ question' = a.value
                /\ stdout' = Append(stdout, <<"Generating solution ideas...">>)
                /\ requests' = Append(requests,
                       askRequest(IdeationMessages(config.problem, a.value, primer),
                                  "0.8", Null))
                /\ pc' = "stage2"
                /\ UNCHANGED <<stderr, exitCode>>
    /\ UNCHANGED <<inputVars, config, primerPool, sampled, primer, ideas, rankingJSON,
                   ideasArray, best>>

\* the answer of stage 2 arrives; the request of stage 3 is sent
Stage2Reply(R) ==
    /\ pc = "stage2"
    /\ \E reply \in R :
        /\ replies' = Append(replies, reply)
        /\ LET a == askResult(reply) IN
           IF a.threw
           THEN /\ Throw(a.error)
                /\ UNCHANGED <<stdout, ideas, requests>>
           ELSE /\ ideas' = a.value
                /\ stdout' = stdout
                       \o (IF config.verbose
                           THEN <<<<"Generated ideas:">> \o a.value>> ELSE <<>>)
                       \o <<<<"Ranking and evaluating ideas...">>>>
                /\ requests' = Append(requests,
                       askRequest(RankingMessages(config.problem, a.value),
                                  "0.2", "json_object"))
                /\ pc' = "stage3"
                /\ UNCHANGED <<stderr, exitCode>>
    /\ UNCHANGED <<inputVars, config, primerPool, sampled, primer, question,
                   rankingJSON, ideasArray, best>>

\* the answer of stage 3 arrives
Stage3Reply(R) ==
    /\ pc = "stage3"
    /\ \E reply \in R :
        /\ replies' = Append(replies, reply)
        /\ LET a == askResult(reply) IN
           IF a.threw
           THEN /\ Throw(a.error)
                /\ UNCHANGED rankingJSON
           ELSE /\ rankingJSON' = a.value
                /\ pc' = "rank"
                /\ UNCHANGED <<stderr, exitCode>>
    /\ UNCHANGED <<inputVars, config, stdout, primerPool, sampled, primer, question,
                   ideas, ideasArray, best, requests>>

\* the try block: parse, normalize, filter, sort, cut and format
Rank ==
    /\ pc = "rank"
    /\ \E o \in RankOutcomes(rankingJSON) :
        /\ ideasArray' = o.ideasArray
        /\ best' = o.best
    /\ pc' = "publish"
    /\ UNCHANGED <<inputVars, config, stdout, stderr, exitCode, primerPool, sampled,
                   primer, question, ideas, rankingJSON, requests, replies>>

\* the lines that show the result
Publish ==
    /\ pc = "publish"
    /\ stdout' = stdout
           \o (IF config.verbose
               THEN <<<<"Raw ranking JSON:">> \o rankingJSON,
                      <<"Mechanistic observation:">> \o question>>
               ELSE <<>>)
           \o <<<<"\nBest ideas:">>>>
           \o [i \in 1..Len(best) |-> <<"\n", ToString(i), ". ">> \o best[i]]
           \o <<<<"\n">>>>
    /\ pc' = "done"
    /\ UNCHANGED <<inputVars, config, stderr, exitCode, primerPool, spinVars,
                   requests, replies>>

\* main resolves and the process ends
Finish ==
    /\ pc = "done"
    /\ Exit(0)
    /\ UNCHANGED <<inputVars, config, stdout, stderr, primerPool, spinVars,
                   requests, replies>>

\* the steps of the script, against a service that answers stage i from Ri
NextWith(R1, R2, R3) ==
    \/ ParseArgs
    \/ ConfigChecks
    \/ LoadPrimer
    \/ StartSpin
    \/ Stage1Reply(R1)
    \/ Stage2Reply(R2)
    \/ Stage3Reply(R3)
    \/ Rank
    \/ Publish
    \/ Finish

(***************************************************************************)
(* The runs of the model.                                                  *)
(***************************************************************************)
InitWith(Args, Tokens, DefaultFiles, OtherFiles) ==
    /\ pc = "parseArgs"
    /\ argv \in Args
    /\ envToken \in Tokens
    /\ disk \in {[p \in Paths |-> IF p = DEFAULT_PRIMER_YAML THEN f ELSE x] :
                    f \in DefaultFiles, x \in OtherFiles}
    /\ config = DefaultConfig(envToken)
    /\ stdout = <<>>
    /\ stderr = <<>>
    /\ exitCode = 0
    /\ primerPool = <<>>
    /\ sampled = <<>>
    /\ primer = <<>>
    /\ question = <<>>
    /\ ideas = <<>>
    /\ rankingJSON = <<>>
    /\ ideasArray = <<>>
    /\ best = <<>>
    /\ requests = <<>>
    /\ replies = <<>>

TwoMechanisms == YamlFile(JArr(<<JStr("m1"), JStr("m2")>>))
OneMechanism == YamlFile(JArr(<<JStr("m1")>>))

\* the files a primer path may name
PrimerFiles ==
    {MissingFile, Directory, InvalidYaml, TwoMechanisms, YamlFile(JArr(<<>>)),
     YamlFile(JStr("m1")), YamlFile(JNull), YamlFile(JObj(<<M("a", JStr("m1"))>>))}

\* the words of a command line
ArgWords == {"-h", "-v", "-m", "--problem", "-f", "-s", "-t", "--token", "--endpoint",
             "--bogus", "prob", "2", ""}

\* Runs of the whole script: a few command lines, every kind of primer file,
\* a service that may fail at every stage.
Init ==
    InitWith({<<"prob">>, <<"-v", "prob", "-s", "2">>, <<"-f", "x.yaml", "prob">>},
             {Null, "tok"}, PrimerFiles, {MissingFile, InvalidYaml, OneMechanism})

Next ==
    NextWith(FailedReplies \cup TextReplies("q"), FailedReplies \cup TextReplies("i"),
             FailedReplies \cup FewRankingReplies)

Spec == Init /\ [][Next]_vars

\* Runs over every command line of at most MaxArgs words.
InitCli ==
    InitWith(Lists(ArgWords, MaxArgs), {Null, "tok"}, {OneMechanism}, {MissingFile})

NextCli ==
    NextWith({[kind |-> "ok", content |-> <<"q">>]}, {[kind |-> "ok", content |-> <<"i">>]},
             {[kind |-> "ok", content |-> <<"[", "]">>, doc |-> JArr(<<>>)]})

SpecCli == InitCli /\ [][NextCli]_vars

\* Runs over every stage 3 answer of the model.
InitRank == InitWith({<<"prob">>, <<"-v", "prob">>}, {"tok"}, {OneMechanism}, {MissingFile})

NextRank ==
    NextWith({[kind |-> "ok", content |-> <<"q">>]}, {[kind |-> "ok", content |-> <<"i">>]},
             RankingReplies)

SpecRank == InitRank /\ [][NextRank]_vars

\* Runs over the primer lists of at most MaxPool entries and the counts
\* --samples can ask for.
InitSample ==
    InitWith({<<"prob">>} \cup {<<"prob", "-s", k>> : k \in DOMAIN IntPrefix},
             {"tok"}, {YamlFile(JArr(l)) : l \in PrimerLists(MaxPool)}, {MissingFile})

SpecSample == InitSample /\ [][NextCli]_vars

(***************************************************************************)
(* Properties.                                                             *)
(***************************************************************************)
\* an entry with a text idea and numeric relevance and plausibility
WellFormedEntry(e) ==
    /\ e.t = "object"
    /\ Member(e.o, "idea").t = "string"
    /\ Member(e.o, "relevance").t = "number"
    /\ Member(e.o, "plausibility").t = "number"

ValidEntriesOf(list) == SelectSeq(list, WellFormedEntry)

CombinedScore(e) == NumAdd(Member(e.o, "relevance").n, Member(e.o, "plausibility").n)

\* x > y on doubles
NumGreater(x, y) ==
    /\ x # NaN
    /\ y # NaN
    /\ x # y
    /\ \/ x = PosInf
       \/ y = NegInf
       \/ IsFin(x) /\ IsFin(y) /\ x.num > y.num

\* the ranker has run
Ranked == best # <<>>

\* the ways to pick and order min(3, Len(v)) positions of v
Selections(v) ==
    {s \in [1..(IF Len(v) < 3 THEN Len(v) ELSE 3) -> 1..Len(v)] :
        \A i, j \in DOMAIN s : i # j => s[i] # s[j]}

\* best shows a selection of the entries v, ordered so that of every two of
\* them the earlier scores more than the later (strict) or does not score less
\* than it (not strict), and no entry left out has a greater score than one
\* shown
ShowsTopOf(v, strict) ==
    \E s \in Selections(v) :
        /\ best = [i \in DOMAIN s |-> FormatIdea(v[s[i]])]
        /\ \A i, j \in DOMAIN s :
              i < j => IF strict
                       THEN NumGreater(CombinedScore(v[s[i]]), CombinedScore(v[s[j]]))
                       ELSE ~NumGreater(CombinedScore(v[s[j]]), CombinedScore(v[s[i]]))
        /\ \A j \in 1..Len(v) : \A i \in DOMAIN s :
              (\A m \in DOMAIN s : s[m] # j)
                  => ~NumGreater(CombinedScore(v[j]), CombinedScore(v[s[i]]))

\* C1 as stated: whenever the normalized list has a valid entry, the entries
\* returned are in strictly descending order of relevance + plausibility, and
\* no valid entry left out scores more than a returned one.
C1_StrictlyDescending ==
    (Ranked /\ ValidEntriesOf(ideasArray) # <<>>)
        => ShowsTopOf(ValidEntriesOf(ideasArray), TRUE)

\* C1 amended: whenever the normalized list has a valid entry and no valid
\* entry has a combined score of NaN, the entries returned are in descending
\* order of relevance + plausibility, equal scores allowed (no returned entry
\* scores less than a later one), and no valid entry left out scores more than
\* a returned one.
C1_Descending ==
    LET v == ValidEntriesOf(ideasArray) IN
    (Ranked /\ v # <<>> /\ \A i \in 1..Len(v) : CombinedScore(v[i]) # NaN)
        => ShowsTopOf(v, FALSE)

\* four valid entries scored 2, 3, 3, 4: the 4, then the two 3s in their
\* original order, are returned and the 2 is left out
C1_Witness ==
    /\ pc = "exited"
    /\ ideasArray = <<IdeaA, IdeaB, IdeaC, IdeaD>>
    /\ best = <<FormatIdea(IdeaD), FormatIdea(IdeaB), FormatIdea(IdeaC)>>

\* the lists that take their elements from different positions of pool
TakenFrom(pool) ==
    {[i \in DOMAIN f |-> pool[f[i]]] :
        f \in {g \in UNION {[1..m -> 1..Len(pool)] : m \in 0..Len(pool)} :
                  \A i, j \in DOMAIN g : i # j => g[i] # g[j]}}

\* the sample has been drawn
Sampled == requests # <<>>

\* C2 as stated: for a count k <= n, sample returns exactly k elements, all of
\* the source list, no two of them equal.
C2_DistinctElements ==
    (Sampled /\ config.samples <= Len(primerPool))
        => /\ Len(sampled) = config.samples
           /\ \A i \in DOMAIN sampled : \E j \in DOMAIN primerPool : sampled[i] = primerPool[j]
           /\ \A i, j \in DOMAIN sampled : i # j => sampled[i] # sampled[j]

\* C2 amended: for a count k with 0 <= k <= n, sample returns exactly k
\* elements, taken from k different positions of the source list (two of them
\* are equal only where the source list repeats a value).
C2_DistinctPositions ==
    (Sampled /\ 0 <= config.samples /\ config.samples <= Len(primerPool))
        => /\ Len(sampled) = config.samples
           /\ sampled \in TakenFrom(primerPool)

\* two of three entries are drawn from a list that repeats a value, and the
\* sample repeats it
C2_Witness ==
    /\ Sampled
    /\ config.samples = 2
    /\ primerPool = <<JStr("m1"), JStr("m2"), JStr("m1")>>
    /\ sampled = <<JStr("m1"), JStr("m1")>>

\* the stage 3 answer of a run that has one
Answer3 == replies[3]

\* the stage 3 answer is not the text of a JSON document (it is cut short, led
\* in by prose or has a trailing comma), or it is the document null, whose
\* normalization throws
Malformed(reply) == ~Intact(reply) \/ reply.doc = JNull

\* the lines console.log has written, after the heading, for the result
ResultLines == [i \in 1..Len(best) |-> <<"\n", ToString(i), ". ">> \o best[i]]

\* stdout ends with the heading, the lines of the result and the closing line
ResultShown ==
    \E n \in 1..Len(stdout) :
        SubSeq(stdout, n, Len(stdout)) = <<<<"\nBest ideas:">>>> \o ResultLines \o <<<<"\n">>>>

\* C3: when the stage 3 answer is not well-formed JSON, or its handling fails
\* while normalizing, the parse step raises no error: the result is exactly
\* one diagnostic entry that contains the raw stage 3 text, and the run goes
\* on to show it and ends with status 0, nothing written to the error stream.
C3_MalformedIsDiagnosed ==
    (Len(replies) = 3 /\ Answer3.kind = "ok" /\ Malformed(Answer3))
        => /\ pc \in {"rank", "publish", "done", "exited"}
           /\ pc = "rank" => RankOutcomes(rankingJSON) # {}
           /\ stderr = <<>>
           /\ pc # "rank" =>
                 /\ Len(best) = 1
                 /\ best[1][1] = "Failed to parse ranking JSON: "
                 /\ Contains(best[1], rankingJSON)
                 /\ rankingJSON = Trim(Answer3.content)
           /\ pc \in {"done", "exited"} => ResultShown
           /\ pc = "exited" => exitCode = 0

\* an answer cut short in the middle of its first object has been diagnosed
\* and shown, and the process has ended with status 0
C3_Witness ==
    /\ pc = "exited"
    /\ exitCode = 0
    /\ Len(replies) = 3
    /\ Answer3.doc = JArr(<<IdeaB>>)
    /\ rankingJSON = SubSeq(Encode(Answer3.doc), 1, 4)
    /\ best = <<ParseFailure("Unexpected token", rankingJSON)>>
    /\ ResultShown

\* C4: every entry of the normalized list that lacks relevance or
\* plausibility, or has one that is not a number, or has an idea that is not
\* text, is left out: each entry of the result shows a valid entry, and there
\* are no more of them than valid entries; when no entry is valid the result
\* is exactly one diagnostic entry that contains the raw stage 3 text, and no
\* error is raised.
C4_InvalidEntriesExcluded ==
    (Len(replies) = 3 /\ Answer3.kind = "ok" /\ ~Malformed(Answer3) /\ Ranked)
        => LET v == ValidEntriesOf(ideasArray) IN
           /\ stderr = <<>>
           /\ pc = "exited" => exitCode = 0
           /\ IF v = <<>>
              THEN /\ Len(best) = 1
                   /\ best[1][1] = "No valid ideas found in response. Raw output: "
                   /\ Contains(best[1], rankingJSON)
              ELSE /\ Len(best) <= Len(v)
                   /\ \A i \in DOMAIN best :
                         \E j \in DOMAIN v : best[i] = FormatIdea(v[j])

\* a list of one valid entry among four kinds of invalid ones: the valid one
\* alone is returned
C4_Witness ==
    /\ pc = "exited"
    /\ Len(ideasArray) = 3
    /\ \E i \in DOMAIN ideasArray : ideasArray[i] = IdeaD
    /\ \E i \in DOMAIN ideasArray : ideasArray[i] = BadIdea
    /\ \E i \in DOMAIN ideasArray : ideasArray[i] = NoPlausibility
    /\ best = <<FormatIdea(IdeaD)>>

\* an object with one field, named key, that holds a list
Wraps(doc, key) ==
    doc.t = "object" /\ Len(doc.o) = 1 /\ doc.o[1].k = key /\ doc.o[1].v.t = "array"

\* an object that has a list under one of the names the normalization reads
HasListField(doc) ==
    \E key \in {"ideas", "results", "result"} : Member(doc.o, key).t = "array"

\* the results of the ranker on the list L written as a bare list
ResultsOfBareList(L) == {o.best : o \in RankOutcomes(Encode(JArr(L)))}

\* C5 as stated: a list L gives the same result written as a bare list, as
\* the ideas field or as the results field of an object, and a one element
\* list [e] gives that result too when the object e is written alone.
C5_SameResult ==
    (Len(replies) = 3 /\ Answer3.kind = "ok" /\ Intact(Answer3) /\ Ranked)
        => LET doc == Answer3.doc IN
           /\ doc.t = "array" => best \in ResultsOfBareList(doc.a)
           /\ (Wraps(doc, "ideas") \/ Wraps(doc, "results"))
                 => best \in ResultsOfBareList(doc.o[1].v.a)
           /\ (doc.t = "object" /\ ~Wraps(doc, "ideas") /\ ~Wraps(doc, "results")
               /\ ~Wraps(doc, "result"))
                 => best \in ResultsOfBareList(<<doc>>)

\* C5 amended: a list L written as a bare list, as the ideas field or as the
\* results field of an object normalizes to L, and so does a single object e
\* to [e] provided e has no list under the names ideas, results or result;
\* the result is the same as for the bare list whenever L has a valid entry,
\* and otherwise it is the one diagnostic entry built from the raw text of the
\* shape at hand.
C5_SameList ==
    (Len(replies) = 3 /\ Answer3.kind = "ok" /\ Intact(Answer3) /\ Ranked)
        => LET doc == Answer3.doc
               Same(L) ==
                   /\ ideasArray = L
                   /\ IF ValidEntriesOf(L) # <<>>
                      THEN best \in ResultsOfBareList(L)
                      ELSE best = <<NoValidIdeas(rankingJSON)>>
           IN
           /\ doc.t = "array" => Same(doc.a)
           /\ (Wraps(doc, "ideas") \/ Wraps(doc, "results")) => Same(doc.o[1].v.a)
           /\ (doc.t = "object" /\ ~HasListField(doc)) => Same(<<doc>>)

\* a list of two valid entries under the results field has been ranked
C5_Witness ==
    /\ pc = "exited"
    /\ Len(replies) = 3
    /\ Answer3.doc = JObj(<<M("results", JArr(<<IdeaA, IdeaD>>))>>)
    /\ Intact(Answer3)
    /\ ideasArray = <<IdeaA, IdeaD>>
    /\ best = <<FormatIdea(IdeaD), FormatIdea(IdeaA)>>

\* a stage of the chain has failed: the last request got no answer to use
StageFailed == replies # <<>> /\ replies[Len(replies)].kind # "ok"

\* C6: when a stage's request fails after the primer was loaded, the error
\* reaches main().catch, which writes the generic failure message, and the
\* process exits with a status other than 0.
C6_TopLevelHandler ==
    (pc = "exited" /\ StageFailed)
        => /\ stderr # <<>>
           /\ stderr[Len(stderr)][1] = "Idea-mill encountered an error:"
           /\ exitCode # 0

\* the configuration passed parseArgs and the checks after it
PassedChecks ==
    /\ pc \notin {"parseArgs", "checks"}
    /\ ~config.help
    /\ ~Falsy(config.problem)
    /\ ~Falsy(config.token)

NotFoundMessage == <<"Error: Primer file '", config.primerFile, "' not found">>
InvalidYamlMessage == <<"Error: Invalid YAML in primer file '", config.primerFile, "'">>
NotAListMessage == <<"Error: Primer file should contain a YAML array/sequence">>

\* the run ended with status 1 and this one message, no request sent
RejectedWith(message) ==
    /\ pc = "exited"
    /\ exitCode = 1
    /\ stderr = <<message>>
    /\ requests = <<>>
    /\ replies = <<>>

\* C7: a missing primer file, one that is not valid YAML and one whose value
\* is not a list are each rejected with a message of their own, with exit
\* status 1 and without a request to the inference service.
C7_PrimerRejected ==
    LET file == FileAt(config.primerFile) IN
    /\ Cardinality({NotFoundMessage, InvalidYamlMessage, NotAListMessage}) = 3
    /\ (PassedChecks /\ pc # "main") =>
          /\ file.kind = "missing" => RejectedWith(NotFoundMessage)
          /\ file.kind = "invalid" => RejectedWith(InvalidYamlMessage)
          /\ (file.kind = "yaml" /\ file.value.t # "array")
                => RejectedWith(NotAListMessage)

\* the primer file named with -f is not valid YAML and the run was rejected
C7_Witness ==
    /\ config.primerFile = "x.yaml"
    /\ FileAt("x.yaml") = InvalidYaml
    /\ RejectedWith(InvalidYamlMessage)

\* the first words of the system prompt of each stage
StagePrompts ==
    <<"Given these mechanism snippets, identify ONE interesting connection, tension, or pattern across them. [...] Do NOT mention the target problem.",
      "Given this observation about different mechanisms and a specific target problem, generate FIVE ways the mechanistic insights could address the problem. Be specific about implementation details.",
      "Extract each complete idea from the previous response and rate it. [...] - Relevance: How directly does this answer ">>

UserMessage(request) == request.messages[2].content

\* C8: the requests are those of connection, ideation and ranking, in that
\* order and each at most once; the ideation request is sent after the
\* connection answer and its prompt contains that answer; the ranking request
\* is sent after the ideation answer and its user message is that answer;
\* after a failed stage no request is sent.  (An answer is what ask returns:
\* the content of the response, trimmed.)
C8_StagesInOrder ==
    /\ Len(requests) <= 3
    /\ Len(replies) <= Len(requests)
    /\ Len(requests) <= Len(replies) + 1
    /\ \A i \in DOMAIN requests : requests[i].messages[1].content[1] = StagePrompts[i]
    /\ \A i \in DOMAIN requests : i > 1 => replies[i - 1].kind = "ok"
    /\ \A i \in DOMAIN replies :
          replies[i].kind # "ok" => (pc = "exited" /\ Len(requests) = i)
    /\ Len(requests) >= 2 =>
          /\ question = Trim(replies[1].content)
          /\ Contains(UserMessage(requests[2]), Trim(replies[1].content))
    /\ Len(requests) = 3 =>
          /\ ideas = Trim(replies[2].content)
          /\ UserMessage(requests[3]) = Trim(replies[2].content)

\* the three requests have been sent, on answers with white space around them
C8_Witness ==
    /\ Len(requests) = 3
    /\ replies[1].content = <<" ", "q", " ", "q", "\n">>
    /\ replies[2].content = <<" ", "i", " ", "i", "\n">>
    /\ UserMessage(requests[3]) = <<"i", " ", "i">>

\* the flags that take a value, and all flags
ValueTaking == {"-m", "--model", "-p", "--problem", "-f", "--primer-file", "-s",
                "--samples", "-t", "--temperature", "--token", "--endpoint"}
KnownFlags == ValueTaking \cup {"-h", "--help", "-v", "--verbose"}

\* the positions of args, from i on, that hold an option or a positional
\* argument: a flag that takes a value is followed by its value
RECURSIVE OptionPositions(_, _)
OptionPositions(args, i) ==
    IF i > Len(args) THEN {}
    ELSE {i} \cup OptionPositions(args, IF args[i] \in ValueTaking THEN i + 2 ELSE i + 1)

UnknownFlagAt(args, i) == StartsWithDash(args[i]) /\ args[i] \notin KnownFlags
MissingValueAt(args, i) == args[i] \in ValueTaking /\ i = Len(args)

\* the messages parseArgs has for a command line
ArgumentErrors(args) ==
    {"Error: Unknown option " \o args[i] : i \in DOMAIN args}
    \cup {"Error: " \o f \o " requires a value" :
             f \in {"--model", "--problem", "--primer-file", "--token", "--endpoint"}}
    \cup {"Error: --samples requires a numeric value",
          "Error: --temperature requires a numeric value"}

\* C9: an unknown flag, and a flag that takes a value given without one, ends
\* the run at once with a status other than 0 and a message on the error
\* stream, before the primer file is read or a request sent.
C9_ArgumentErrors ==
    (\E i \in OptionPositions(argv, 1) : UnknownFlagAt(argv, i) \/ MissingValueAt(argv, i))
        => /\ pc \in {"parseArgs", "exited"}
           /\ pc = "exited" =>
                 /\ exitCode = 1
                 /\ Len(stderr) = 1
                 /\ stderr[1][1] \in ArgumentErrors(argv)
                 /\ stdout = <<>>
                 /\ primerPool = <<>>
                 /\ requests = <<>>

\* a problem statement followed by --token without a value: the run has ended
\* with status 1 and the message of --token
C9_Witness ==
    /\ argv = <<"-v", "prob", "--token">>
    /\ pc = "exited"
    /\ exitCode = 1
    /\ stderr = <<<<"Error: --token requires a value">>>>

\* no positional argument and no --problem / -p
NoProblemGiven(args) ==
    \A i \in OptionPositions(args, 1) :
        StartsWithDash(args[i]) /\ args[i] \notin {"-p", "--problem"}

HelpAsked(args) == \E i \in OptionPositions(args, 1) : args[i] \in {"-h", "--help"}

\* parseArgs rejects the command line: an unknown flag, a flag without its
\* value, or a count or temperature that is no number
ArgumentFault(args) ==
    \E i \in OptionPositions(args, 1) :
        \/ UnknownFlagAt(args, i)
        \/ args[i] \in ValueTaking /\ (i = Len(args) \/ args[i + 1] = "")
        \/ args[i] \in {"-s", "--samples", "-t", "--temperature"}
           /\ i < Len(args) /\ ParsesNaN(args[i + 1])

ProblemRequired ==
    <<"Error: Problem statement is required. Use --help for usage information.">>

\* the run ends before main, with status 1 and the message that a problem
\* statement is required
EndsWithProblemRequired ==
    /\ pc \in {"parseArgs", "checks", "exited"}
    /\ pc = "exited" =>
          /\ exitCode = 1
          /\ stderr = <<ProblemRequired>>
          /\ stdout = <<>>
          /\ primerPool = <<>>
          /\ requests = <<>>

\* C10 as stated: every invocation with neither a positional problem
\* statement nor --problem / -p exits with status 1 and the message "Problem
\* statement is required.", the primer file not read, no request sent.
C10_AlwaysProblemRequired == NoProblemGiven(argv) => EndsWithProblemRequired

\* C10 amended: every invocation whose command line parseArgs accepts and
\* that does not ask for help (-h / --help), with neither a positional problem
\* statement nor --problem / -p, exits with status 1 and the message "Problem
\* statement is required.", the primer file not read, no request sent.
C10_ProblemRequired ==
    (NoProblemGiven(argv) /\ ~HelpAsked(argv) /\ ~ArgumentFault(argv))
        => EndsWithProblemRequired

\* flags only, accepted by parseArgs: the run has ended with the message
C10_Witness ==
    /\ argv = <<"-v", "-m", "2">>
    /\ pc = "exited"
    /\ exitCode = 1
    /\ stderr = <<ProblemRequired>>

\* the stage 3 request has been answered with a text: the run reaches the ranker
ReachedRanker == Len(replies) = 3 /\ Answer3.kind = "ok"

\* the try block has been left
RankerDone == pc \in {"publish", "done", "exited"}

Min3(v) == IF v < 3 THEN v ELSE 3

\* the two diagnostic entries
DiagnosticPrefixes ==
    {"Failed to parse ranking JSON: ", "No valid ideas found in response. Raw output: "}

\* best is one diagnostic entry
OneDiagnostic ==
    /\ Len(best) = 1
    /\ best[1][1] \in DiagnosticPrefixes
    /\ Contains(best[1], rankingJSON)

\* best holds the display strings of min(3, Len(v)) entries of v, each entry
\* of v shown at most once
RankedEntriesOf(v) ==
    /\ Len(best) = Min3(Len(v))
    /\ \E s \in Selections(v) : best = [i \in DOMAIN s |-> FormatIdea(v[s[i]])]

\* C11: for every stage 3 answer the result of the ranker is a list of at
\* least 1 and at most 3 entries: with v >= 1 valid entries in the normalized
\* list it has exactly min(3, v) ranked entries, and in every other case (no
\* valid entry, or a failure to parse or normalize) exactly 1 diagnostic
\* entry; a run that reaches the ranker raises no error, shows the result and
\* ends with status 0.
C11_ResultSize ==
    ReachedRanker
        => /\ pc \in {"rank", "publish", "done", "exited"}
           /\ pc = "rank" => RankOutcomes(rankingJSON) # {}
           /\ stderr = <<>>
           /\ pc = "exited" => exitCode = 0 /\ ResultShown
           /\ RankerDone =>
                 LET v == ValidEntriesOf(ideasArray) IN
                 /\ Len(best) \in 1..3
                 /\ IF Len(v) >= 1 THEN RankedEntriesOf(v) ELSE OneDiagnostic

\* a bare list of more than three valid entries, two of them the same: three
\* are shown and the run has ended with status 0
C11_Witness ==
    /\ ReachedRanker
    /\ pc = "exited"
    /\ exitCode = 0
    /\ Answer3.doc = JArr(<<IdeaA, IdeaB, IdeaC, IdeaA>>)
    /\ Len(ValidEntriesOf(ideasArray)) = 4
    /\ Len(best) = 3
    /\ ResultShown

====
